---- MODULE Spec2Model ----
(***************************************************************************)
(* SynthesisAgent (src/agents/synthesis.py): the RIC code normaliser, the  *)
(* recyclability decision, the instruction generator, the response         *)
(* formatter and the run() coordinator with its failure boundary.          *)
(*                                                                         *)
(* Representation.  A Python str is a sequence of fragments (TLA+ strings).*)
(* Raw codes are spelled character by character (<<"P","S"," ","6">>), so  *)
(* that strip, upper, replace and the isalpha/isdigit scan act on          *)
(* characters; the fixed sentences of the source are one fragment each.    *)
(* The emoji of the headings are left out.  An f-string is the             *)
(* concatenation (\o) of its parts and "\n".join is Join.  A Python dict is a function on its keys, a list is a sequence,   *)
(* and a dict whose iteration order matters (special_instructions) is a    *)
(* sequence of <<key, value>> pairs with distinct keys.                    *)
(***************************************************************************)
EXTENDS Integers, Sequences, FiniteSets, TLC

VARIABLES pc, ric_in, ric_out, product_info, location_info, recommendation,
          instructions, formatted_response, result, invoked, fault

vars == <<pc, ric_in, ric_out, product_info, location_info, recommendation,
          instructions, formatted_response, result, invoked, fault>>

(***************************************************************************)
(* Bounds of the model.                                                    *)
(***************************************************************************)
\* longest raw string, in characters, handed to the normaliser on its own
MaxRawLen == 3
\* longest accepts / rejects list of a location
MaxList == 2
\* most entries of special_instructions
MaxSpecial == 2

(***************************************************************************)
(* Python values that are not dicts or not strs.                           *)
(***************************************************************************)
\* None, where a dict is expected
None == [NoneType |-> TRUE]
IsNone(d) == "NoneType" \in DOMAIN d
\* the empty dict {}
EmptyDict == [k \in {} |-> TRUE]
\* an int (6) where a str is expected: it has no strip()
IntSix == <<"<int 6>">>
IsStr(v) == v # IntSix
\* str(e) of the AttributeError that 6 .strip() raises
AttributeError == <<"'int' object has no attribute 'strip'">>
\* str(e) of the AttributeError that None.get() raises
NoneTypeError == <<"'NoneType' object has no attribute 'get'">>
\* no text (a local not yet assigned, no exception raised)
NoText == <<>>

\* mutant: an "is None" test in place of truthiness
Truthy_not_none(d) == ~IsNone(d)
\* Python truthiness of an optional dict: None and {} are falsy
Truthy(d) == ~IsNone(d) /\ DOMAIN d # {}
\* d.get(k, default)
Get(d, k, default) == IF k \in DOMAIN d THEN d[k] ELSE default

(***************************************************************************)
(* str methods used by _normalize_ric.                                     *)
(***************************************************************************)
LowerCase == <<"a","b","c","d","e","f","g","h","i","j","k","l","m",
               "n","o","p","q","r","s","t","u","v","w","x","y","z">>
UpperCase == <<"A","B","C","D","E","F","G","H","I","J","K","L","M",
               "N","O","P","Q","R","S","T","U","V","W","X","Y","Z">>
Digits == <<"0","1","2","3","4","5","6","7","8","9">>
Whitespace == {" ", "\t", "\n"}

Range(s) == {s[i] : i \in DOMAIN s}
isalpha(c) == c \in Range(LowerCase) \cup Range(UpperCase)
isdigit(c) == c \in Range(Digits)

upper_char(c) ==
    IF c \in Range(LowerCase)
    THEN UpperCase[CHOOSE i \in DOMAIN LowerCase : LowerCase[i] = c]
    ELSE c
\* mutant: the case is left as it is
upper_identity(s) == s
upper(s) == [i \in DOMAIN s |-> upper_char(s[i])]

lower_char(c) ==
    IF c \in Range(UpperCase)
    THEN LowerCase[CHOOSE i \in DOMAIN UpperCase : UpperCase[i] = c]
    ELSE c
lower(s) == [i \in DOMAIN s |-> lower_char(s[i])]

RECURSIVE lstrip(_)
lstrip(s) == IF s # <<>> /\ Head(s) \in Whitespace THEN lstrip(Tail(s)) ELSE s
RECURSIVE rstrip(_)
rstrip(s) ==
    IF s # <<>> /\ s[Len(s)] \in Whitespace
    THEN rstrip(SubSeq(s, 1, Len(s) - 1))
    ELSE s
strip(s) == rstrip(lstrip(s))

\* s.replace(c, '') for a one-character c
remove(s, c) == SelectSeq(s, LAMBDA x : x # c)

(***************************************************************************)
(* _normalize_ric                                                          *)
(***************************************************************************)
PET1   == <<"P","E","T"," ","#","1">>
HDPE2  == <<"H","D","P","E"," ","#","2">>
PVC3   == <<"P","V","C"," ","#","3">>
LDPE4  == <<"L","D","P","E"," ","#","4">>
PP5    == <<"P","P"," ","#","5">>
PS6    == <<"P","S"," ","#","6">>
OTHER7 == <<"O","T","H","E","R"," ","#","7">>

ric_map ==
    [k \in {<<"1">>, <<"#","1">>, <<"2">>, <<"#","2">>, <<"3">>, <<"#","3">>,
            <<"4">>, <<"#","4">>, <<"5">>, <<"#","5">>, <<"6">>, <<"#","6">>,
            <<"7">>, <<"#","7">>} |->
        CASE k[Len(k)] = "1" -> PET1
          [] k[Len(k)] = "2" -> HDPE2
          [] k[Len(k)] = "3" -> PVC3
          [] k[Len(k)] = "4" -> LDPE4
          [] k[Len(k)] = "5" -> PP5
          [] k[Len(k)] = "6" -> PS6
          [] k[Len(k)] = "7" -> OTHER7]

\* lines 126-144: the path taken when the table has no entry
normalize_parse(stripped) ==
    LET cleaned  == remove(remove(stripped, " "), "#")
        material == SelectSeq(cleaned, isalpha)
        number   == SelectSeq(cleaned, isdigit)
    IN  IF material # <<>> /\ number # <<>>
        THEN material \o <<" ", "#">> \o number
        ELSE cleaned

_normalize_ric(ric_code) ==
    LET stripped == upper(strip(ric_code))
    IN  IF stripped \in DOMAIN ric_map
        THEN ric_map[stripped]
        ELSE normalize_parse(stripped)

\* ric_code.strip() raises AttributeError when ric_code is not a str
normalize_raises(ric_code) == ~IsStr(ric_code)

(***************************************************************************)
(* _determine_recyclability                                                *)
(* A confidence is held in thousandths: 0.95 is 950.                       *)
(***************************************************************************)
valid_plastics == <<PET1, HDPE2, PVC3, LDPE4, PP5, PS6, OTHER7>>

OutOfScopeReason ==
    <<"This MVP version only supports plastic materials with Resin Identification Codes (RIC). Other materials will be supported in future updates.">>
OutOfScopeTip ==
    <<"Check back soon for support of glass, paper, metal, and other materials!">>

\* lines 157-161: the curbside record and its two lists
curbside_of(location) == Get(location, "curbside_recycling", EmptyDict)
raw_accepts(location) == Get(curbside_of(location), "accepts", <<>>)
raw_rejects(location) == Get(curbside_of(location), "rejects", <<>>)
normalize_list(items) == [i \in DOMAIN items |-> _normalize_ric(items[i])]

\* str(e) of the exception lines 155-161 raise, NoText when they raise none:
\* the product's code is no str, curbside_recycling is None, or an entry of
\* accepts or rejects is no str
determine_fault(product, location) ==
    IF normalize_raises(Get(product, "ric_code", NoText)) THEN AttributeError
    ELSE IF IsNone(curbside_of(location)) THEN NoneTypeError
    ELSE IF \/ \E i \in DOMAIN raw_accepts(location) :
                   normalize_raises(raw_accepts(location)[i])
            \/ \E i \in DOMAIN raw_rejects(location) :
                   normalize_raises(raw_rejects(location)[i])
    THEN AttributeError
    ELSE NoText

\* the four verdicts of lines 168-201
out_of_scope_verdict ==
    [is_recyclable |-> FALSE, confidence |-> 1000,
     reason |-> OutOfScopeReason,
     instructions |-> <<>>, tips |-> <<OutOfScopeTip>>]
rejected_verdict(ric_code) ==
    [is_recyclable |-> FALSE, confidence |-> 900,
     reason |-> ric_code \o
         <<" is not accepted in your local curbside recycling program.">>,
     instructions |-> <<>>, tips |-> <<>>]
accepted_verdict(ric_code) ==
    [is_recyclable |-> TRUE, confidence |-> 950,
     reason |-> ric_code \o
         <<" is accepted in your local curbside recycling program.">>]
unknown_verdict(ric_code) ==
    [is_recyclable |-> FALSE, confidence |-> 500,
     reason |-> <<"Unable to confirm if ">> \o ric_code \o
         <<" is accepted locally. Please check with your local recycling facility.">>,
     instructions |-> <<>>, tips |-> <<>>]

\* mutant: the local rejects list is consulted before the scope gate
determine_rejects_before_scope(product, location) ==
    LET ric_code == _normalize_ric(Get(product, "ric_code", NoText))
        accepts  == normalize_list(raw_accepts(location))
        rejects  == normalize_list(raw_rejects(location))
    IN  IF ric_code \in Range(rejects) THEN rejected_verdict(ric_code)
        ELSE IF ric_code \notin Range(valid_plastics) THEN out_of_scope_verdict
        ELSE IF ric_code \in Range(accepts) THEN accepted_verdict(ric_code)
        ELSE unknown_verdict(ric_code)

\* mutant: the accepts list is consulted before the rejects list
determine_accepts_before_rejects(product, location) ==
    LET ric_code == _normalize_ric(Get(product, "ric_code", NoText))
        accepts  == normalize_list(raw_accepts(location))
        rejects  == normalize_list(raw_rejects(location))
    IN  IF ric_code \notin Range(valid_plastics) THEN out_of_scope_verdict
        ELSE IF ric_code \in Range(accepts) THEN accepted_verdict(ric_code)
        ELSE IF ric_code \in Range(rejects) THEN rejected_verdict(ric_code)
        ELSE unknown_verdict(ric_code)

_determine_recyclability(product, location) ==
    LET ric_code == _normalize_ric(Get(product, "ric_code", NoText))
        accepts  == normalize_list(raw_accepts(location))
        rejects  == normalize_list(raw_rejects(location))
    IN  IF ric_code \notin Range(valid_plastics) THEN out_of_scope_verdict
        ELSE IF ric_code \in Range(rejects) THEN rejected_verdict(ric_code)
        ELSE IF ric_code \in Range(accepts) THEN accepted_verdict(ric_code)
        ELSE unknown_verdict(ric_code)

(***************************************************************************)
(* _create_instructions                                                    *)
(***************************************************************************)
CleanStep ==
    <<"Clean and rinse the item to remove any food residue or contaminants">>
FlattenStep == <<"Flatten or crush to save space in your recycling bin">>
PlaceStep == <<"Place in your curbside recycling bin">>

special_of(location) == Get(curbside_of(location), "special_instructions", <<>>)

\* lines 219-223: the entries the loop looks at before it stops; it stops at
\* the first key that normalises to ric_code, or that is not a str
special_matches(special, ric_code) ==
    {i \in DOMAIN special :
        IsStr(special[i][1]) /\ _normalize_ric(special[i][1]) = ric_code}
special_bad(special) == {i \in DOMAIN special : ~IsStr(special[i][1])}
\* mutant: the loop has no break, the last matching key wins
Greatest(S) == CHOOSE i \in S : \A j \in S : i >= j
Least(S) == CHOOSE i \in S : \A j \in S : i <= j

\* str(e) of the exception lines 212-223 raise, NoText when they raise none
instructions_fault(product, location) ==
    IF normalize_raises(Get(product, "ric_code", NoText)) THEN AttributeError
    ELSE IF IsNone(curbside_of(location)) THEN NoneTypeError
    ELSE LET ric_code == _normalize_ric(Get(product, "ric_code", NoText))
             special  == special_of(location)
             hit      == special_matches(special, ric_code)
             bad      == special_bad(special)
         IN  IF bad # {} /\ (hit = {} \/ Least(bad) < Least(hit))
             THEN AttributeError
             ELSE NoText

\* mutant: the placement step is appended before the compaction step
create_instructions_place_first(product, location) ==
    LET ric_code == _normalize_ric(Get(product, "ric_code", NoText))
        special  == special_of(location)
        hit      == special_matches(special, ric_code)
        first    == IF hit # {} THEN special[Least(hit)][2] ELSE CleanStep
        crush    == IF ric_code \in {PET1, HDPE2, PP5}
                    THEN <<FlattenStep>> ELSE <<>>
    IN  <<first>> \o <<PlaceStep>> \o crush

_create_instructions(product, location) ==
    LET ric_code == _normalize_ric(Get(product, "ric_code", NoText))
        special  == special_of(location)
        hit      == special_matches(special, ric_code)
        first    == IF hit # {} THEN special[Least(hit)][2] ELSE CleanStep
        crush    == IF ric_code \in {PET1, HDPE2, PP5}
                    THEN <<FlattenStep>> ELSE <<>>
    IN  <<first>> \o crush \o <<PlaceStep>>

(***************************************************************************)
(* _format_response                                                        *)
(***************************************************************************)
Unknown == <<"U","n","k","n","o","w","n">>

RECURSIVE str_int(_)
str_int(n) == IF n < 10 THEN <<Digits[n + 1]>>
              ELSE str_int(n \div 10) \o <<Digits[(n % 10) + 1]>>

\* f"{confidence*100:.0f}": the nearest whole percent, a tie going to the even
format_percent(confidence) ==
    LET q == confidence \div 10
        r == confidence % 10
    IN  str_int(IF r > 5 \/ (r = 5 /\ q % 2 = 1) THEN q + 1 ELSE q)

RECURSIVE Join(_)
Join(lines) ==
    IF Len(lines) = 0 THEN <<>>
    ELSE IF Len(lines) = 1 THEN lines[1]
    ELSE lines[1] \o <<"\n">> \o Join(Tail(lines))

\* enumerate(instructions, 1): "1. step"
numbered(steps) == [i \in DOMAIN steps |-> str_int(i) \o <<". ">> \o steps[i]]
bulleted(tips) == [i \in DOMAIN tips |-> <<"* ">> \o tips[i]]

\* str(e) of the exception line 253 raises, NoText when it raises none
format_fault(product, location, rec) ==
    LET raw_ric == Get(product, "ric_code", Unknown)
    IN  IF raw_ric # Unknown /\ normalize_raises(raw_ric)
        THEN AttributeError
        ELSE NoText

status_lines(rec) ==
    LET confidence == Get(rec, "confidence", 0)
        reason     == Get(rec, "reason", NoText)
        steps      == Get(rec, "instructions", <<>>)
        tips       == Get(rec, "tips", <<>>)
    IN  IF Get(rec, "is_recyclable", FALSE)
        THEN << <<"**Status:** Recyclable (Confidence: ">>
                    \o format_percent(confidence) \o <<"%", ")\n">>,
                <<"**Reason:** ">> \o reason \o <<"\n">> >>
             \o (IF steps # <<>>
                 THEN << <<"## How to Recycle">> >> \o numbered(steps) \o << <<>> >>
                 ELSE <<>>)
        ELSE << <<"**Status:** Not Recyclable\n">>,
                <<"**Reason:** ">> \o reason \o <<"\n">> >>
             \o (IF tips # <<>>
                 THEN << <<"## Tips">> >> \o bulleted(tips) \o << <<>> >>
                 ELSE <<>>)

_format_response(product, location, rec) ==
    LET raw_ric        == Get(product, "ric_code", Unknown)
        normalized_ric == IF raw_ric # Unknown THEN _normalize_ric(raw_ric)
                          ELSE Unknown
        municipality   == Get(location, "municipality", <<"your area">>)
        state          == Get(location, "state", NoText)
        location_str   == IF state # NoText
                          THEN municipality \o <<", ">> \o state
                          ELSE municipality
    IN  Join(<< <<"# Recycling Recommendation\n">>,
                <<"## Product Information">>,
                <<"**Product:** ">> \o Get(product, "product_name", Unknown),
                <<"**Material:** ">> \o normalized_ric \o <<"\n">>,
                <<"## Location: ">> \o location_str \o <<"\n">>,
                <<"## Recommendation">> >>
             \o status_lines(rec)
             \o << <<"---">>,
                   <<"*This recommendation is based on your local recycling guidelines.*">> >>)

(***************************************************************************)
(* Inputs                                                                  *)
(***************************************************************************)
BoundedSeq(S, n) == UNION {[1..k -> S] : k \in 0..n}

\* characters of the raw strings normalised on their own: a lower-case and an
\* upper-case letter, a resin digit, a digit that is no resin code, '#',
\* space, tab, and a character that is neither letter, digit nor space
RawAlphabet == {"p", "E", "1", "8", "#", " ", "\t", "-"}

\* the material abbreviation the table gives each resin digit
Abbrev == <<<<"P","E","T">>, <<"H","D","P","E">>, <<"P","V","C">>,
            <<"L","D","P","E">>, <<"P","P">>, <<"P","S">>,
            <<"O","T","H","E","R">>>>
Pads == {<<>>, <<" ">>, <<"\t", " ">>}
\* "d", "#d", "A d", "A#d", "A #d"
Forms(d) ==
    LET dc == Digits[d + 1]
        A  == Abbrev[d]
    IN  {<<dc>>, <<"#", dc>>, A \o <<" ", dc>>, A \o <<"#", dc>>,
         A \o <<" ", "#", dc>>}
\* ... in upper and lower case, padded with whitespace on either side
Spellings(d) ==
    {l \o c \o r : c \in Forms(d) \cup {lower(f) : f \in Forms(d)},
                   l \in Pads, r \in Pads}

RawStrings ==
    BoundedSeq(RawAlphabet, MaxRawLen) \cup UNION {Spellings(d) : d \in 1..7}

Glass == <<"g","l","a","s","s">>
PETE1 == <<"P","E","T","E"," ","#","1">>
Bottle == <<"Water bottle">>
LocalStep == <<"Remove the cap and rinse">>

\* ric_code values of the products given to run
RunCodes == {<<"1">>, <<"p","s"," ","6">>, Glass, IntSix}
RunProducts ==
    {None, EmptyDict, [product_name |-> Bottle]}
    \cup {[product_name |-> Bottle, ric_code |-> c] : c \in RunCodes}

\* entries of the accepts and rejects lists
ListCodes == {<<"6">>, <<"P","s"," ","#","6">>, Glass, IntSix}
RunSpecials == {<<>>, << <<<<"6">>, LocalStep>> >>, << <<IntSix, LocalStep>> >>}
RunLocations ==
    {None, EmptyDict, [municipality |-> <<"Springfield">>],
     [municipality |-> <<"Springfield">>, curbside_recycling |-> None]}
    \cup {[municipality |-> <<"Springfield">>, state |-> <<"IL">>,
           curbside_recycling |->
               [accepts |-> a, rejects |-> r, special_instructions |-> sp]] :
          a \in BoundedSeq(ListCodes, MaxList),
          r \in BoundedSeq(ListCodes, MaxList),
          sp \in RunSpecials}

\* products and locations given to _create_instructions on its own
InstrCodes == {<<"1">>, <<"p","e","t"," ","1">>, <<"#","2">>, <<"5">>,
               <<"p","s"," ","6">>, Glass, PETE1, IntSix}
InstrProducts == {[product_name |-> Bottle]}
    \cup {[product_name |-> Bottle, ric_code |-> c] : c \in InstrCodes}
SpecialKeys == {<<"1">>, <<"P","E","T"," ","1">>, PETE1, <<"6">>, IntSix}
SpecialValues == {LocalStep, CleanStep, FlattenStep}
Specials ==
    {sp \in BoundedSeq(SpecialKeys \X SpecialValues, MaxSpecial) :
        \A i, j \in DOMAIN sp : i # j => sp[i][1] # sp[j][1]}
InstrLocations ==
    {[municipality |-> <<"Springfield">>],
     [municipality |-> <<"Springfield">>, curbside_recycling |-> None]}
    \cup {[municipality |-> <<"Springfield">>,
           curbside_recycling |-> [special_instructions |-> sp]] :
          sp \in Specials}

\* products, locations and verdicts given to _format_response on its own
FormatProducts ==
    {EmptyDict, [product_name |-> Bottle, ric_code |-> <<"p","s"," ","6">>],
     [ric_code |-> Unknown], [ric_code |-> IntSix]}
FormatLocations ==
    {EmptyDict, [municipality |-> <<"Springfield">>],
     [municipality |-> <<"Springfield">>, state |-> <<"IL">>]}
Confidences == {0, 125, 375, 500, 900, 950, 1000}
Reasons == {OutOfScopeReason,
            PS6 \o <<" is accepted in your local curbside recycling program.">>}
FormatVerdicts ==
    {[is_recyclable |-> b, confidence |-> c, reason |-> rs,
      instructions |-> st, tips |-> tp] :
        b \in BOOLEAN, c \in Confidences, rs \in Reasons,
        st \in {<<>>, <<CleanStep, PlaceStep>>},
        tp \in {<<>>, <<OutOfScopeTip>>}}
    \cup {[is_recyclable |-> TRUE, confidence |-> c, reason |-> rs] :
        c \in Confidences, rs \in Reasons}

(***************************************************************************)
(* Initial states: one call of one method, with its arguments.             *)
(***************************************************************************)
InitNormalize ==
    /\ pc = "normalize"
    /\ ric_in \in RawStrings
    /\ ric_out = <<>>
    /\ product_info = None
    /\ location_info = None
    /\ recommendation = None
    /\ instructions = <<>>
    /\ formatted_response = NoText
    /\ result = None
    /\ invoked = <<>>
    /\ fault = NoText

InitRun ==
    /\ pc = "run"
    /\ product_info \in RunProducts
    /\ location_info \in RunLocations
    /\ ric_in = NoText
    /\ ric_out = <<>>
    /\ recommendation = None
    /\ instructions = <<>>
    /\ formatted_response = NoText
    /\ result = None
    /\ invoked = <<>>
    /\ fault = NoText

InitInstructions ==
    /\ pc = "create_instructions"
    /\ product_info \in InstrProducts
    /\ location_info \in InstrLocations
    /\ ric_in = NoText
    /\ ric_out = <<>>
    /\ recommendation = None
    /\ instructions = <<>>
    /\ formatted_response = NoText
    /\ result = None
    /\ invoked = <<>>
    /\ fault = NoText

InitFormat ==
    /\ pc = "format_response"
    /\ product_info \in FormatProducts
    /\ location_info \in FormatLocations
    /\ recommendation \in FormatVerdicts
    /\ ric_in = NoText
    /\ ric_out = <<>>
    /\ instructions = <<>>
    /\ formatted_response = NoText
    /\ result = None
    /\ invoked = <<>>
    /\ fault = NoText

Init == InitNormalize \/ InitRun \/ InitInstructions \/ InitFormat

(***************************************************************************)
(* _normalize_ric called on a string, and again on what it returned.       *)
(***************************************************************************)
NormalizeRic ==
    /\ pc = "normalize"
    /\ ric_out' = <<_normalize_ric(ric_in)>>
    /\ pc' = "normalized"
    /\ UNCHANGED <<ric_in, product_info, location_info, recommendation,
                   instructions, formatted_response, result, invoked, fault>>

NormalizeAgain ==
    /\ pc = "normalized"
    /\ ric_out' = Append(ric_out, _normalize_ric(ric_out[1]))
    /\ pc' = "renormalized"
    /\ UNCHANGED <<ric_in, product_info, location_info, recommendation,
                   instructions, formatted_response, result, invoked, fault>>

(***************************************************************************)
(* run                                                                     *)
(***************************************************************************)
AgentName == <<"SynthesisAgent">>
MissingError == <<"Missing required information from upstream agents">>

\* recommendation['instructions'] = steps
with_instructions(rec, steps) ==
    [k \in DOMAIN rec \cup {"instructions"} |->
        IF k = "instructions" THEN steps ELSE rec[k]]

\* lines 45-49
RunValidate ==
    /\ pc = "run"
    /\ IF ~Truthy(product_info) \/ ~Truthy(location_info)
       THEN /\ result' = [success |-> FALSE, error |-> MissingError]
            /\ pc' = "done"
       ELSE /\ pc' = "determine"
            /\ UNCHANGED result
    /\ UNCHANGED <<ric_in, ric_out, product_info, location_info,
                   recommendation, instructions, formatted_response, invoked,
                   fault>>

\* lines 52-55
RunDetermine ==
    /\ pc = "determine"
    /\ invoked' = Append(invoked, "_determine_recyclability")
    /\ IF determine_fault(product_info, location_info) # NoText
       THEN /\ fault' = determine_fault(product_info, location_info)
            /\ pc' = "except"
            /\ UNCHANGED recommendation
       ELSE /\ recommendation' =
                   _determine_recyclability(product_info, location_info)
            /\ pc' = "instructions"
            /\ UNCHANGED fault
    /\ UNCHANGED <<ric_in, ric_out, product_info, location_info, instructions,
                   formatted_response, result>>

\* lines 58-62
RunInstructions ==
    /\ pc = "instructions"
    /\ IF recommendation["is_recyclable"]
       THEN /\ invoked' = Append(invoked, "_create_instructions")
            /\ IF instructions_fault(product_info, location_info) # NoText
               THEN /\ fault' = instructions_fault(product_info, location_info)
                    /\ pc' = "except"
                    /\ UNCHANGED recommendation
               ELSE /\ recommendation' = with_instructions(recommendation,
                           _create_instructions(product_info, location_info))
                    /\ pc' = "format"
                    /\ UNCHANGED fault
       ELSE /\ pc' = "format"
            /\ UNCHANGED <<recommendation, invoked, fault>>
    /\ UNCHANGED <<ric_in, ric_out, product_info, location_info, instructions,
                   formatted_response, result>>

\* lines 65-69
RunFormat ==
    /\ pc = "format"
    /\ invoked' = Append(invoked, "_format_response")
    /\ IF format_fault(product_info, location_info, recommendation) # NoText
       THEN /\ fault' =
                   format_fault(product_info, location_info, recommendation)
            /\ pc' = "except"
            /\ UNCHANGED formatted_response
       ELSE /\ formatted_response' =
                   _format_response(product_info, location_info, recommendation)
            /\ pc' = "return"
            /\ UNCHANGED fault
    /\ UNCHANGED <<ric_in, ric_out, product_info, location_info,
                   recommendation, instructions, result>>

\* lines 71-76
RunReturn ==
    /\ pc = "return"
    /\ result' = [success |-> TRUE, agent |-> AgentName,
                  recommendation |-> recommendation,
                  formatted_response |-> formatted_response]
    /\ pc' = "done"
    /\ UNCHANGED <<ric_in, ric_out, product_info, location_info,
                   recommendation, instructions, formatted_response, invoked,
                   fault>>

\* mutant: the handler reports a fixed message in place of str(e)
RunExcept_fixed_message ==
    /\ pc = "except"
    /\ result' = [success |-> FALSE, agent |-> AgentName,
                  error |-> <<"Synthesis failed">>]
    /\ pc' = "done"
    /\ UNCHANGED <<ric_in, ric_out, product_info, location_info,
                   recommendation, instructions, formatted_response, invoked,
                   fault>>

\* lines 78-83
RunExcept ==
    /\ pc = "except"
    /\ result' = [success |-> FALSE, agent |-> AgentName, error |-> fault]
    /\ pc' = "done"
    /\ UNCHANGED <<ric_in, ric_out, product_info, location_info,
                   recommendation, instructions, formatted_response, invoked,
                   fault>>

(***************************************************************************)
(* _create_instructions and _format_response called on their own: the      *)
(* exception, if any, reaches the caller.                                  *)
(***************************************************************************)
CreateInstructions ==
    /\ pc = "create_instructions"
    /\ IF instructions_fault(product_info, location_info) # NoText
       THEN /\ fault' = instructions_fault(product_info, location_info)
            /\ pc' = "raised"
            /\ UNCHANGED instructions
       ELSE /\ instructions' = _create_instructions(product_info, location_info)
            /\ pc' = "instructions_returned"
            /\ UNCHANGED fault
    /\ UNCHANGED <<ric_in, ric_out, product_info, location_info,
                   recommendation, formatted_response, result, invoked>>

FormatResponse ==
    /\ pc = "format_response"
    /\ IF format_fault(product_info, location_info, recommendation) # NoText
       THEN /\ fault' =
                   format_fault(product_info, location_info, recommendation)
            /\ pc' = "raised"
            /\ UNCHANGED formatted_response
       ELSE /\ formatted_response' =
                   _format_response(product_info, location_info, recommendation)
            /\ pc' = "format_returned"
            /\ UNCHANGED fault
    /\ UNCHANGED <<ric_in, ric_out, product_info, location_info,
                   recommendation, instructions, result, invoked>>

Next ==
    \/ NormalizeRic
    \/ NormalizeAgain
    \/ RunValidate
    \/ RunDetermine
    \/ RunInstructions
    \/ RunFormat
    \/ RunReturn
    \/ RunExcept
    \/ CreateInstructions
    \/ FormatResponse

Spec == Init /\ [][Next]_vars

(***************************************************************************)
(* Properties                                                              *)
(***************************************************************************)
CanonicalCodes == {PET1, HDPE2, PVC3, LDPE4, PP5, PS6, OTHER7}
CompactedCodes == {PET1, HDPE2, PP5}
AllFields == {"is_recyclable", "confidence", "reason", "instructions", "tips"}

\* the product's code as the decision and the generator see it
ProductCode == _normalize_ric(Get(product_info, "ric_code", NoText))
\* sub occurs in text
Contains(text, sub) ==
    \E i \in 1..(Len(text) - Len(sub) + 1) :
        SubSeq(text, i, i + Len(sub) - 1) = sub

\* run has a verdict in hand: the decision engine returned one
RunHasVerdict ==
    /\ pc \in {"instructions", "format", "return", "done"}
    /\ "_determine_recyclability" \in Range(invoked)
    /\ ~IsNone(recommendation)
\* an input that is None or an empty record
Absent(d) == IsNone(d) \/ DOMAIN d = {}
\* run has finished a call whose inputs were both non-empty
RunDone == pc = "done" /\ ~Absent(product_info) /\ ~Absent(location_info)

\* _create_instructions has returned a list, to run or to a direct caller
InstructionsGenerated ==
    \/ pc = "instructions_returned"
    \/ /\ pc \in {"format", "return", "done"}
       /\ "_create_instructions" \in Range(invoked)
       /\ fault = NoText
GeneratedList ==
    IF pc = "instructions_returned" THEN instructions
    ELSE recommendation["instructions"]
\* the values of the special_instructions keys that normalise to the
\* product's code, in iteration order
MatchingValues ==
    LET special == special_of(location_info)
        keyed   == SelectSeq(special,
                       LAMBDA kv : IsStr(kv[1])
                                   /\ _normalize_ric(kv[1]) = ProductCode)
    IN  [i \in DOMAIN keyed |-> keyed[i][2]]

\* _format_response has returned a text, to run or to a direct caller
ResponseFormatted ==
    \/ pc = "format_returned"
    \/ pc \in {"return", "done"} /\ "_format_response" \in Range(invoked)
                                 /\ fault = NoText

\* C1: normalising a normalised string changes nothing:
\* _normalize_ric(_normalize_ric(x)) = _normalize_ric(x) for every string x.
C1_Idempotent == pc = "renormalized" => ric_out[2] = ric_out[1]

\* C2: for each resin digit d with abbreviation A, every spelling "d", "#d",
\* "A d", "A#d", "A #d", in upper or lower case and padded with whitespace,
\* normalises to "A #d".
C2_SpellingsConverge ==
    \A d \in 1..7 :
        (pc \in {"normalized", "renormalized"} /\ ric_in \in Spellings(d))
            => ric_out[1] = Abbrev[d] \o <<" ", "#", Digits[d + 1]>>
C2_Witness ==
    /\ pc = "normalized"
    /\ ric_in = <<" ", "p", "s", "#", "6", "\t", " ">>
    /\ ric_out = <<PS6>>

\* C3: a product whose normalised code is not one of the seven canonical codes
\* gets is_recyclable = false, confidence 1.0, no instructions and at least
\* one tip, whatever the accepts and rejects lists hold.
C3_ScopeGate ==
    (RunHasVerdict /\ ProductCode \notin CanonicalCodes)
        => /\ recommendation["is_recyclable"] = FALSE
           /\ recommendation["confidence"] = 1000
           /\ recommendation["instructions"] = <<>>
           /\ recommendation["tips"] # <<>>
           /\ pc = "done" => Get(result, "recommendation", None) = recommendation
C3_Witness ==
    /\ RunDone
    /\ result["success"]
    /\ Get(product_info, "ric_code", NoText) = Glass
    /\ Glass \in Range(raw_accepts(location_info))
    /\ Glass \in Range(raw_rejects(location_info))
    /\ result["recommendation"]["confidence"] = 1000

\* C4: a canonical code whose normalised form is in both the normalised
\* accepts and the normalised rejects list gets is_recyclable = false with
\* confidence 0.9, and run generates no instructions for it.
C4_RejectBeforeAccept ==
    (/\ RunHasVerdict
     /\ ProductCode \in CanonicalCodes
     /\ ProductCode \in Range(normalize_list(raw_accepts(location_info)))
     /\ ProductCode \in Range(normalize_list(raw_rejects(location_info))))
        => /\ recommendation["is_recyclable"] = FALSE
           /\ recommendation["confidence"] = 900
           /\ recommendation["instructions"] = <<>>
           /\ "_create_instructions" \notin Range(invoked)
           /\ pc = "done" => Get(result, "recommendation", None) = recommendation
C4_Witness ==
    /\ RunDone
    /\ result["success"]
    /\ Get(product_info, "ric_code", NoText) = <<"p", "s", " ", "6">>
    /\ raw_accepts(location_info) = <<Glass, <<"6">>>>
    /\ raw_rejects(location_info) = <<<<"P", "s", " ", "#", "6">>>>
    /\ result["recommendation"]["confidence"] = 900

\* C5 as stated: the list _create_instructions returns is non-empty, ends
\* with the placement step, and holds the compaction step if and only if the
\* code is one of PET #1, HDPE #2, PP #5; the compaction step, when in the
\* list, is after the first step and immediately before the placement step.
C5_AsStated ==
    InstructionsGenerated =>
        LET L == GeneratedList
        IN  /\ L # <<>>
            /\ L[Len(L)] = PlaceStep
            /\ FlattenStep \in Range(L) <=> ProductCode \in CompactedCodes
            /\ \A i \in DOMAIN L :
                   L[i] = FlattenStep => i > 1 /\ i = Len(L) - 1

\* C5 amended: the list is a first step followed by the compaction step and
\* the placement step when the code is one of PET #1, HDPE #2, PP #5, and by
\* the placement step alone otherwise; the first step is not constrained.
C5_OrderAfterFirstStep ==
    InstructionsGenerated =>
        LET L == GeneratedList
        IN  /\ L # <<>>
            /\ Tail(L) = IF ProductCode \in CompactedCodes
                         THEN <<FlattenStep, PlaceStep>>
                         ELSE <<PlaceStep>>
C5_Witness ==
    /\ pc = "instructions_returned"
    /\ Get(product_info, "ric_code", NoText) = <<"p", "e", "t", " ", "1">>
    /\ special_of(location_info) = << <<<<"1">>, LocalStep>> >>
    /\ instructions = <<LocalStep, FlattenStep, PlaceStep>>

\* C6: when product_info or location_info is None or empty, run returns
\* success = false with the missing-information error, no recommendation and
\* no formatted_response, and calls none of the three components.
C6_MissingInput ==
    (pc = "done" /\ (Absent(product_info) \/ Absent(location_info)))
        => /\ result = [success |-> FALSE, error |-> MissingError]
           /\ invoked = <<>>
           /\ recommendation = None
           /\ formatted_response = NoText
C6_Witness ==
    /\ pc = "done"
    /\ ~Absent(product_info)
    /\ DOMAIN location_info = {}
    /\ result["success"] = FALSE

\* C7: for non-empty inputs run ends with a result and lets no exception out;
\* when the decision engine, the instruction generator or the formatter
\* raises, the result is success = false with str(e) as error and no
\* recommendation; otherwise it is success = true with recommendation and
\* formatted_response and no error.
C7_FailureBoundary ==
    /\ (pc = "raised" => invoked = <<>>)
    /\ RunDone =>
        LET df == determine_fault(product_info, location_info)
            gf == IF df = NoText
                     /\ _determine_recyclability(product_info,
                                                 location_info)["is_recyclable"]
                  THEN instructions_fault(product_info, location_info)
                  ELSE NoText
            ff == format_fault(product_info, location_info, recommendation)
            e  == IF df # NoText THEN df ELSE IF gf # NoText THEN gf ELSE ff
        IN  IF e # NoText
            THEN result = [success |-> FALSE, agent |-> AgentName, error |-> e]
            ELSE /\ result["success"] = TRUE
                 /\ {"recommendation", "formatted_response"}
                        \subseteq DOMAIN result
                 /\ "error" \notin DOMAIN result
                 /\ result["formatted_response"] # NoText
C7_Witness ==
    /\ RunDone
    /\ Get(product_info, "ric_code", NoText) = <<"p", "s", " ", "6">>
    /\ raw_accepts(location_info) = <<<<"6">>>>
    /\ special_of(location_info) = << <<IntSix, LocalStep>> >>
    /\ invoked = <<"_determine_recyclability", "_create_instructions">>
    /\ result = [success |-> FALSE, agent |-> AgentName,
                 error |-> AttributeError]

\* the percentages C8 names
C8_Percent(c) ==
    CASE c = 950  -> <<"9", "5", "%">>
      [] c = 900  -> <<"9", "0", "%">>
      [] c = 500  -> <<"5", "0", "%">>
      [] c = 1000 -> <<"1", "0", "0", "%">>
\* C8: for every verdict given to the formatter, recyclable or not, the
\* formatted response holds the status, the confidence as a whole-number
\* percentage and the reason.
C8_StatusConfidenceReason ==
    (/\ ResponseFormatted
     /\ {"is_recyclable", "confidence", "reason"} \subseteq DOMAIN recommendation
     /\ recommendation["confidence"] \in {500, 900, 950, 1000})
        => /\ Contains(formatted_response,
                       IF recommendation["is_recyclable"]
                       THEN <<"**Status:** Recyclable (Confidence: ">>
                       ELSE <<"**Status:** Not Recyclable\n">>)
           /\ Contains(formatted_response,
                       C8_Percent(recommendation["confidence"]))
           /\ Contains(formatted_response,
                       <<"**Reason:** ">> \o recommendation["reason"])

\* C9: the recommendation of every successful result has the five fields
\* is_recyclable, confidence, reason, instructions and tips, on every branch
\* of the decision.
C9_CompleteVerdict ==
    (RunDone /\ result["success"])
        => DOMAIN result["recommendation"] = AllFields

\* C10 as stated: when some key of special_instructions normalises to the
\* product's code, the first instruction is the value of the first such key
\* and the clean-and-rinse step is not in the list; when none does, the first
\* instruction is the clean-and-rinse step.
C10_AsStated ==
    InstructionsGenerated =>
        LET L == GeneratedList
        IN  IF MatchingValues # <<>>
            THEN L[1] = MatchingValues[1] /\ CleanStep \notin Range(L)
            ELSE L[1] = CleanStep

\* C10 amended: when some key normalises to the product's code, the first
\* instruction is the value of the first such key and no clean-and-rinse step
\* follows it; when none does, the first instruction is the clean-and-rinse
\* step.
C10_LocalityOverride ==
    InstructionsGenerated =>
        LET L == GeneratedList
        IN  IF MatchingValues # <<>>
            THEN L[1] = MatchingValues[1] /\ CleanStep \notin Range(Tail(L))
            ELSE L[1] = CleanStep
C10_Witness ==
    /\ pc = "instructions_returned"
    /\ Get(product_info, "ric_code", NoText) = <<"1">>
    /\ special_of(location_info) =
           << <<<<"P","E","T"," ","1">>, LocalStep>>, <<<<"1">>, FlattenStep>> >>
    /\ instructions = <<LocalStep, FlattenStep, PlaceStep>>

====
